---- MODULE Spec2Model ----
(***************************************************************************)
(* Cluster survey of Grafana Live (pkg/services/live/survey.go).           *)
(*                                                                         *)
(* SurveyCaller broadcasts a JSON request to every node (centrifuge        *)
(* Node.Survey), each node answers through handleSurvey, and the caller    *)
(* folds the batch of replies into one result: a channel list without      *)
(* duplicates (CallManagedStreams) or a sum (CallNumChannelSubscribers).   *)
(*                                                                         *)
(* Byte payloads are modelled by the JSON text they hold: its parse tree,  *)
(* or Garbage / NilBytes when the bytes are no JSON text.  Go strings are  *)
(* sequences of symbols, one of which (xFF) is a byte that is not valid    *)
(* UTF-8.                                                                  *)
(***************************************************************************)
EXTENDS Integers, Sequences, FiniteSets, TLC

(***************************************************************************)
(* Bounds of the model.                                                    *)
(***************************************************************************)
\* most replies in a batch returned to CallManagedStreams
MaxReplies == 3
\* most channel entries in a batch returned to CallManagedStreams, all replies together
MaxEntries == 3
\* most replies in a batch returned to CallNumChannelSubscribers
MaxNumReplies == 5
\* longest channel name passed to CallNumChannelSubscribers
MaxStrLen == 2
MaxConcurrentReplies == 2

(***************************************************************************)
(* Program constants.                                                      *)
(***************************************************************************)
managedStreamsCall == "managed_streams"
numChannelSubscribersCall == "num_channel_subscribers"
\* timeouts of the two calls, in milliseconds
ManagedStreamsTimeoutMs == 1000
NumSubscribersTimeoutMs == 500
\* Largest value of Go's int (field Num, variable num).  int is 32 or 64 bits
\* wide by platform; the 32-bit width is the one TLC's integers can hold, the
\* 64-bit one behaves the same with 2^63 - 1.
MaxInt == 2147483647
MinInt == -MaxInt - 1

(***************************************************************************)
(* Go strings and JSON values.                                             *)
(***************************************************************************)
\* a byte that is not valid UTF-8, and the replacement rune U+FFFD
xFF == "\\xff"
uFFFD == "\\ufffd"

JNull == [t |-> "null"]
JFloat == [t |-> "float"]               \* a number literal with a fraction, 1.5
JNum(n) == [t |-> "num", v |-> n]       \* an integer literal
JStr(s) == [t |-> "str", v |-> s]       \* s: the string's runes, after unescaping
JArr(a) == [t |-> "arr", v |-> a]
JObj(m) == [t |-> "obj", v |-> m]       \* m: the members <<key, value>>, in order
JRaw(x) == [t |-> "raw", v |-> x]       \* an opaque value (channel metadata)
\* bytes that are no JSON text, and no bytes at all (a reply without Data)
Garbage == [t |-> "garbage"]
NilBytes == [t |-> "nil"]

IsJSON(data) == data.t \notin {"garbage", "nil"}

\* strings.ToValidUTF8 as json.Marshal applies it: every invalid byte becomes U+FFFD
ToValidUTF8(s) == [i \in 1..Len(s) |-> IF s[i] = xFF THEN uFFFD ELSE s[i]]

\* encoding/json matches a key to a struct field by name, ignoring case
FoldKey(k) ==
    CASE k = "ORGID" -> "orgid"
      [] k = "orgId" -> "orgid"
      [] k = "Channel" -> "channel"
      [] OTHER -> k

\* the members of an object that decode into the field tagged `name`; a null
\* value leaves the field alone
MembersFor(obj, name) ==
    SelectSeq(obj.v, LAMBDA m : FoldKey(m[1]) = FoldKey(name) /\ m[2].t # "null")

SyntaxError == "json: syntax error"
TypeError == "json: cannot unmarshal into Go value"

\* json.Unmarshal of `data` into a struct with one field `name` of JSON type
\* `typ`: the error, and the value the last well-typed member gives the field
\* (`zero` when none does)
UnmarshalField(data, name, typ, zero) ==
    IF ~IsJSON(data) THEN [err |-> SyntaxError, val |-> zero]
    ELSE IF data.t = "null" THEN [err |-> "", val |-> zero]
    ELSE IF data.t # "obj" THEN [err |-> TypeError, val |-> zero]
    ELSE LET ms == MembersFor(data, name)
             good == SelectSeq(ms, LAMBDA m : m[2].t = typ)
         IN [err |-> IF Len(good) # Len(ms) THEN TypeError ELSE "",
             val |-> IF good = <<>> THEN zero ELSE good[Len(good)][2].v]

(***************************************************************************)
(* The wire types (survey.go:34-48) and their JSON forms.                  *)
(***************************************************************************)
\* a nil *ManagedChannel
NilPtr == [ptr |-> "nil"]
\* metadata of a managed channel that json.Marshal rejects
Unencodable == "unencodable"
ManagedChannel(channel, meta) == [Channel |-> channel, Meta |-> meta]

NodeManagedChannelsRequest(orgID) == [OrgID |-> orgID]
NumChannelSubscribersRequest(channel) == [Channel |-> channel]

\* json.Marshal(NodeManagedChannelsRequest{...}): {"orgId": n}
MarshalManagedChannelsRequest(req) == JObj(<< <<"orgId", JNum(req.OrgID)>> >>)

\* MarshalNumSubscribersRequest under a field tag the handler's type does not carry
MarshalNumSubscribersRequestOtherTag(req) ==
    JObj(<< <<"channelId", JStr(ToValidUTF8(req.Channel))>> >>)

\* json.Marshal(NumChannelSubscribersRequest{...}): {"channel": "..."}
MarshalNumSubscribersRequest(req) ==
    JObj(<< <<"channel", JStr(ToValidUTF8(req.Channel))>> >>)

\* json.Unmarshal(data, &req) of handleManagedStreams
UnmarshalManagedChannelsRequest(data) ==
    LET f == UnmarshalField(data, "orgId", "num", 0)
    IN [err |-> f.err, req |-> NodeManagedChannelsRequest(f.val)]

\* json.Unmarshal(data, &req) of handleNumChannelSubscribers
UnmarshalNumSubscribersRequest(data) ==
    LET f == UnmarshalField(data, "channel", "str", <<>>)
    IN [err |-> f.err, req |-> NumChannelSubscribersRequest(f.val)]

\* one element of "channels" as JSON; a nil pointer encodes as null
MarshalManagedChannel(ch) ==
    IF ch = NilPtr THEN JNull
    ELSE JObj(<< <<"channel", JStr(ToValidUTF8(ch.Channel))>>, <<"meta", JRaw(ch.Meta)>> >>)

Encodable(ch) == ch = NilPtr \/ ch.Meta # Unencodable

\* json.Marshal(NodeManagedChannelsResponse{Channels: channels}); a nil slice
\* encodes as null
MarshalManagedChannelsResponse(channels, isNil) ==
    IF \E i \in 1..Len(channels) : ~Encodable(channels[i])
    THEN [err |-> "json: unsupported value", data |-> NilBytes]
    ELSE [err |-> "",
          data |-> JObj(<< <<"channels",
                    IF isNil THEN JNull
                    ELSE JArr([i \in 1..Len(channels) |-> MarshalManagedChannel(channels[i])])>> >>)]

\* json.Marshal(NumChannelSubscribersResponse{Num: n}): never fails
MarshalNumSubscribersResponse(n) ==
    [err |-> "", data |-> JObj(<< <<"num_subscribers", JNum(n)>> >>)]

\* one element of "channels" decoded into a *ManagedChannel: null gives a nil pointer
UnmarshalManagedChannel(e) ==
    IF e.t = "null" THEN [err |-> "", val |-> NilPtr]
    ELSE LET c == UnmarshalField(e, "channel", "str", <<>>)
             m == UnmarshalField(e, "meta", "raw", "")
         IN [err |-> IF c.err # "" THEN c.err ELSE m.err,
             val |-> ManagedChannel(c.val, m.val)]

\* json.Unmarshal(result.Data, &res) of CallManagedStreams
UnmarshalManagedChannelsResponse(data) ==
    LET f == UnmarshalField(data, "channels", "arr", <<>>)
        arrs == IF IsJSON(data) /\ data.t = "obj"
                THEN SelectSeq(MembersFor(data, "channels"), LAMBDA m : m[2].t = "arr")
                ELSE <<>>
        elemErr == \E k \in 1..Len(arrs) : \E i \in 1..Len(arrs[k][2].v) :
                       UnmarshalManagedChannel(arrs[k][2].v[i]).err # ""
    IN [err |-> IF f.err # "" THEN f.err ELSE IF elemErr THEN TypeError ELSE "",
        Channels |-> [i \in 1..Len(f.val) |-> UnmarshalManagedChannel(f.val[i]).val]]

\* json.Unmarshal(result.Data, &res) of CallNumChannelSubscribers
UnmarshalNumSubscribersResponse(data) ==
    LET f == UnmarshalField(data, "num_subscribers", "num", 0)
    IN [err |-> f.err, Num |-> f.val]

SurveyReply(code, data) == [Code |-> code, Data |-> data]

(***************************************************************************)
(* SurveyCaller.CallManagedStreams and CallNumChannelSubscribers           *)
(* (survey.go:105-172) as functions of what Node.Survey returned.          *)
(***************************************************************************)
UnexpectedCode(code) == "unexpected survey code: " \o ToString(code)

\* AppendNew that never records an identifier in duplicatesCheck
RECURSIVE AppendNewNoMark(_, _, _, _)
AppendNewNoMark(chs, i, channels, duplicatesCheck) ==
    IF i > Len(chs) THEN [panic |-> FALSE, channels |-> channels, dup |-> duplicatesCheck]
    ELSE IF chs[i] = NilPtr THEN [panic |-> TRUE, channels |-> channels, dup |-> duplicatesCheck]
    ELSE IF chs[i].Channel \in duplicatesCheck
         THEN AppendNewNoMark(chs, i + 1, channels, duplicatesCheck)
         ELSE AppendNewNoMark(chs, i + 1, Append(channels, chs[i]), duplicatesCheck)

\* The inner loop (survey.go:131-137) over one reply's channels from index i:
\* ch.Channel of a nil entry is a nil dereference, which panics.
RECURSIVE AppendNew(_, _, _, _)
AppendNew(chs, i, channels, duplicatesCheck) ==
    IF i > Len(chs) THEN [panic |-> FALSE, channels |-> channels, dup |-> duplicatesCheck]
    ELSE IF chs[i] = NilPtr THEN [panic |-> TRUE, channels |-> channels, dup |-> duplicatesCheck]
    ELSE IF chs[i].Channel \in duplicatesCheck
         THEN AppendNew(chs, i + 1, channels, duplicatesCheck)
         ELSE AppendNew(chs, i + 1, Append(channels, chs[i]),
                        duplicatesCheck \cup {chs[i].Channel})

\* MergeReplies with a duplicatesCheck that starts empty at every reply
RECURSIVE MergeRepliesFreshCheck(_, _, _, _)
MergeRepliesFreshCheck(resp, i, channels, duplicatesCheck) ==
    IF i > Len(resp)
    THEN [outcome |-> "ok", channels |-> channels, isNil |-> FALSE, err |-> "",
          examined |-> Len(resp)]
    ELSE IF resp[i].Code # 0
    THEN [outcome |-> "error", channels |-> <<>>, isNil |-> TRUE,
          err |-> UnexpectedCode(resp[i].Code), examined |-> i]
    ELSE LET res == UnmarshalManagedChannelsResponse(resp[i].Data) IN
         IF res.err # ""
         THEN [outcome |-> "error", channels |-> <<>>, isNil |-> TRUE, err |-> res.err,
               examined |-> i]
         ELSE LET a == AppendNew(res.Channels, 1, channels, {}) IN
              IF a.panic
              THEN [outcome |-> "panic", channels |-> <<>>, isNil |-> TRUE,
                    err |-> "nil pointer dereference", examined |-> i]
              ELSE MergeRepliesFreshCheck(resp, i + 1, a.channels, a.dup)

\* MergeReplies that passes over a reply with a nonzero status code
RECURSIVE MergeRepliesSkipsBadNodes(_, _, _, _)
MergeRepliesSkipsBadNodes(resp, i, channels, duplicatesCheck) ==
    IF i > Len(resp)
    THEN [outcome |-> "ok", channels |-> channels, isNil |-> FALSE, err |-> "",
          examined |-> Len(resp)]
    ELSE IF resp[i].Code # 0
    THEN MergeRepliesSkipsBadNodes(resp, i + 1, channels, duplicatesCheck)
    ELSE LET res == UnmarshalManagedChannelsResponse(resp[i].Data) IN
         IF res.err # ""
         THEN [outcome |-> "error", channels |-> <<>>, isNil |-> TRUE, err |-> res.err,
               examined |-> i]
         ELSE LET a == AppendNew(res.Channels, 1, channels, duplicatesCheck) IN
              IF a.panic
              THEN [outcome |-> "panic", channels |-> <<>>, isNil |-> TRUE,
                    err |-> "nil pointer dereference", examined |-> i]
              ELSE MergeRepliesSkipsBadNodes(resp, i + 1, a.channels, a.dup)

\* The outer loop (survey.go:122-140) from reply i on.  examined counts the
\* replies whose Code was read.
RECURSIVE MergeReplies(_, _, _, _)
MergeReplies(resp, i, channels, duplicatesCheck) ==
    IF i > Len(resp)
    THEN [outcome |-> "ok", channels |-> channels, isNil |-> FALSE, err |-> "",
          examined |-> Len(resp)]
    ELSE IF resp[i].Code # 0
    THEN [outcome |-> "error", channels |-> <<>>, isNil |-> TRUE,
          err |-> UnexpectedCode(resp[i].Code), examined |-> i]
    ELSE LET res == UnmarshalManagedChannelsResponse(resp[i].Data) IN
         IF res.err # ""
         THEN [outcome |-> "error", channels |-> <<>>, isNil |-> TRUE, err |-> res.err,
               examined |-> i]
         ELSE LET a == AppendNew(res.Channels, 1, channels, duplicatesCheck) IN
              IF a.panic
              THEN [outcome |-> "panic", channels |-> <<>>, isNil |-> TRUE,
                    err |-> "nil pointer dereference", examined |-> i]
              ELSE MergeReplies(resp, i + 1, a.channels, a.dup)

\* num += res.Num on Go's int: wraps around, computed without leaving the int range
AddInt(a, b) ==
    IF b > 0 /\ a > MaxInt - b THEN (a - MaxInt - 1) + (b - MaxInt - 1)
    ELSE IF b < 0 /\ a < MinInt - b THEN (a + MaxInt + 1) + (b + MaxInt + 1)
    ELSE a + b

\* SumReplies with num = res.Num in place of num += res.Num
RECURSIVE SumRepliesAssign(_, _, _)
SumRepliesAssign(resp, i, num) ==
    IF i > Len(resp)
    THEN [outcome |-> "ok", num |-> num, err |-> "", examined |-> Len(resp)]
    ELSE IF resp[i].Code # 0
    THEN [outcome |-> "error", num |-> 0, err |-> UnexpectedCode(resp[i].Code),
          examined |-> i]
    ELSE LET res == UnmarshalNumSubscribersResponse(resp[i].Data) IN
         IF res.err # ""
         THEN [outcome |-> "error", num |-> 0, err |-> res.err, examined |-> i]
         ELSE SumRepliesAssign(resp, i + 1, res.Num)

\* The loop of CallNumChannelSubscribers (survey.go:159-171) from reply i on.
RECURSIVE SumReplies(_, _, _)
SumReplies(resp, i, num) ==
    IF i > Len(resp)
    THEN [outcome |-> "ok", num |-> num, err |-> "", examined |-> Len(resp)]
    ELSE IF resp[i].Code # 0
    THEN [outcome |-> "error", num |-> 0, err |-> UnexpectedCode(resp[i].Code),
          examined |-> i]
    ELSE LET res == UnmarshalNumSubscribersResponse(resp[i].Data) IN
         IF res.err # ""
         THEN [outcome |-> "error", num |-> 0, err |-> res.err, examined |-> i]
         ELSE SumReplies(resp, i + 1, AddInt(num, res.Num))

\* what Node.Survey hands back: an error, or a batch of replies
SurveyFailed(err) == [err |-> err, resp |-> <<>>]
SurveyReturned(resp) == [err |-> "", resp |-> resp]

\* ManagedStreamsResult without the check of Survey's error
ManagedStreamsResultIgnoresErr(survey) == MergeReplies(survey.resp, 1, <<>>, {})

\* ManagedStreamsResult that treats an empty batch as a failure
ManagedStreamsResultNoReplyFails(survey) ==
    IF survey.err # "" \/ survey.resp = <<>>
    THEN [outcome |-> "error", channels |-> <<>>, isNil |-> TRUE,
          err |-> IF survey.err # "" THEN survey.err ELSE "no replies", examined |-> 0]
    ELSE MergeReplies(survey.resp, 1, <<>>, {})

\* survey.go:114-140 once Survey has returned
ManagedStreamsResult(survey) ==
    IF survey.err # ""
    THEN [outcome |-> "error", channels |-> <<>>, isNil |-> TRUE, err |-> survey.err,
          examined |-> 0]
    ELSE MergeReplies(survey.resp, 1, <<>>, {})

\* NumChannelSubscribersResult without the check of Survey's error
NumChannelSubscribersResultIgnoresErr(survey) == SumReplies(survey.resp, 1, 0)

\* survey.go:152-171 once Survey has returned
NumChannelSubscribersResult(survey) ==
    IF survey.err # ""
    THEN [outcome |-> "error", num |-> 0, err |-> survey.err, examined |-> 0]
    ELSE SumReplies(survey.resp, 1, 0)

(***************************************************************************)
(* The dispatcher's side: SurveyCaller.handleSurvey (survey.go:50-103) as  *)
(* a function of the event and of the node's registries.                   *)
(***************************************************************************)
\* c.live.getManagedChannels(orgID): the channel registry's answer
getManagedChannels(reg, orgID) ==
    IF reg.err # "" THEN [err |-> reg.err, channels |-> <<>>, isNil |-> TRUE]
    ELSE IF orgID \in DOMAIN reg.channels
         THEN [err |-> "", channels |-> reg.channels[orgID], isNil |-> FALSE]
         ELSE [err |-> "", channels |-> <<>>, isNil |-> TRUE]

\* c.node.Hub().NumSubscribers(channel): the hub's count, 0 for a channel it does not know
NumSubscribers(reg, channel) ==
    IF channel \in DOMAIN reg.subscribers THEN reg.subscribers[channel] ELSE 0

NoResponse == [type |-> "nil"]

\* handleManagedStreams that goes on when the registry fails
handleManagedStreamsIgnoresLookupErr(reg, data) ==
    LET d == UnmarshalManagedChannelsRequest(data) IN
    IF d.err # ""
    THEN [err |-> d.err, resp |-> NoResponse, decodeErr |-> d.err, req |-> d.req,
          lookups |-> <<>>]
    ELSE LET got == getManagedChannels(reg, d.req.OrgID)
         IN [err |-> "", decodeErr |-> "", req |-> d.req,
             lookups |-> <<[registry |-> "channels", orgID |-> d.req.OrgID]>>,
             resp |-> [type |-> "NodeManagedChannelsResponse",
                       Channels |-> got.channels, isNil |-> got.isNil]]

\* handleManagedStreams(data), survey.go:78-91.  req is the decoded request,
\* lookups lists the registry queries made.
handleManagedStreams(reg, data) ==
    LET d == UnmarshalManagedChannelsRequest(data) IN
    IF d.err # ""
    THEN [err |-> d.err, resp |-> NoResponse, decodeErr |-> d.err, req |-> d.req,
          lookups |-> <<>>]
    ELSE LET got == getManagedChannels(reg, d.req.OrgID)
             q == <<[registry |-> "channels", orgID |-> d.req.OrgID]>>
         IN IF got.err # ""
            THEN [err |-> got.err, resp |-> NoResponse, decodeErr |-> "", req |-> d.req,
                  lookups |-> q]
            ELSE [err |-> "", decodeErr |-> "", req |-> d.req, lookups |-> q,
                  resp |-> [type |-> "NodeManagedChannelsResponse",
                            Channels |-> got.channels, isNil |-> got.isNil]]

\* handleNumChannelSubscribers(data), survey.go:93-103
handleNumChannelSubscribers(reg, data) ==
    LET d == UnmarshalNumSubscribersRequest(data) IN
    IF d.err # ""
    THEN [err |-> d.err, resp |-> NoResponse, decodeErr |-> d.err, req |-> d.req,
          lookups |-> <<>>]
    ELSE [err |-> "", decodeErr |-> "", req |-> d.req,
          lookups |-> <<[registry |-> "hub", channel |-> d.req.Channel]>>,
          resp |-> [type |-> "NumChannelSubscribersResponse",
                    Num |-> NumSubscribers(reg, d.req.Channel)]]

\* json.Marshal(resp), survey.go:67
MarshalResponse(resp) ==
    IF resp.type = "NodeManagedChannelsResponse"
    THEN MarshalManagedChannelsResponse(resp.Channels, resp.isNil)
    ELSE MarshalNumSubscribersResponse(resp.Num)

\* the switch without its default case: an unknown operation is handled as the first
DispatchWithoutDefault(reg, e) ==
    CASE e.Op = numChannelSubscribersCall -> handleNumChannelSubscribers(reg, e.Data)
      [] OTHER -> handleManagedStreams(reg, e.Data)

\* the switch with its two cases exchanged
DispatchSwapped(reg, e) ==
    CASE e.Op = managedStreamsCall -> handleNumChannelSubscribers(reg, e.Data)
      [] e.Op = numChannelSubscribersCall -> handleManagedStreams(reg, e.Data)
      [] OTHER -> [err |-> "method not found", resp |-> NoResponse, decodeErr |-> "",
                   req |-> NoResponse, lookups |-> <<>>]

\* the switch on e.Op, survey.go:55-62
Dispatch(reg, e) ==
    CASE e.Op = managedStreamsCall -> handleManagedStreams(reg, e.Data)
      [] e.Op = numChannelSubscribersCall -> handleNumChannelSubscribers(reg, e.Data)
      [] OTHER -> [err |-> "method not found", resp |-> NoResponse, decodeErr |-> "",
                   req |-> NoResponse, lookups |-> <<>>]

\* handleSurvey(e, cb), survey.go:50-76.  replies lists the calls of cb.
handleSurvey(reg, e) ==
    LET r == Dispatch(reg, e) IN
    IF r.err # ""
    THEN [done |-> TRUE, event |-> e, err |-> r.err, decodeErr |-> r.decodeErr,
          encodeErr |-> "", req |-> r.req, lookups |-> r.lookups,
          replies |-> <<SurveyReply(1, NilBytes)>>]
    ELSE LET m == MarshalResponse(r.resp) IN
         IF m.err # ""
         THEN [done |-> TRUE, event |-> e, err |-> "", decodeErr |-> "",
               encodeErr |-> m.err, req |-> r.req, lookups |-> r.lookups,
               replies |-> <<SurveyReply(1, NilBytes)>>]
         ELSE [done |-> TRUE, event |-> e, err |-> "", decodeErr |-> "",
               encodeErr |-> "", req |-> r.req, lookups |-> r.lookups,
               replies |-> <<SurveyReply(0, m.data)>>]

(***************************************************************************)
(* State.                                                                  *)
(***************************************************************************)
VARIABLES
    call,       \* the invocation of a Call* method: what it sent, what Survey
                \* returned and what it returned to its invoker
    wire,       \* the survey event a caller's broadcast has put on the wire
    node,       \* the registries of the node that answers: channel registry, hub
    handled,    \* the survey event handleSurvey handled, and its one reply
    calls,      \* invocations of the Call* methods that run concurrently, each
                \* with its own locals (channels, duplicatesCheck, num)
    cluster,    \* the nodes that answer a broadcast: registries, event, reply
    handlers    \* invocations of handleSurvey that run concurrently on one node

vars == <<call, wire, node, handled, calls, cluster, handlers>>

NoCall == [fn |-> "none"]
\* centrifuge.SurveyEvent as handleSurvey reads it: e.Op, e.Data
SurveyEvent(op, data) == [Op |-> op, Data |-> data, sent |-> TRUE]
NoEvent == [Op |-> "", Data |-> NilBytes, sent |-> FALSE]
NotHandled == [done |-> FALSE]

(***************************************************************************)
(* What the transport can hand to a caller.                                *)
(***************************************************************************)
OrgIDs == {7}

\* errors of Node.Survey itself
TransportErrors == {"context deadline exceeded", "no reachable nodes"}

\* the entries a node's reply can list: x twice with different metadata, and null
ReplyEntries ==
    {ManagedChannel(<<"x">>, "m1"), ManagedChannel(<<"x">>, "m2"),
     ManagedChannel(<<"y">>, "m1"), NilPtr}

\* replies that carry no channel: failures of the node, and payloads that do not decode
BadStreamReplies ==
    {SurveyReply(1, NilBytes), SurveyReply(2, NilBytes), SurveyReply(0, Garbage)}

\* status-0 replies listing exactly k entries
StreamReplies(k) ==
    {SurveyReply(0, MarshalManagedChannelsResponse(chs, FALSE).data) :
        chs \in [1..k -> ReplyEntries]}

\* the number of entries a reply lists
EntriesIn(rep) ==
    IF rep.Code = 0 /\ rep.Data.t = "obj" THEN Len(rep.Data.v[1][2].v) ELSE 0

\* every reply a node can give to a managed_streams survey, within the bounds
AllStreamReplies == BadStreamReplies \cup UNION {StreamReplies(k) : k \in 0..MaxEntries}

RECURSIVE EntriesOf(_)
EntriesOf(resp) ==
    IF resp = <<>> THEN 0 ELSE EntriesIn(Head(resp)) + EntriesOf(Tail(resp))

\* the counts a node's reply can carry, and replies that carry none
Counts == {0, 4, 7, MaxInt}
NumReplies ==
    {SurveyReply(0, MarshalNumSubscribersResponse(c).data) : c \in Counts}
    \cup {SurveyReply(1, NilBytes), SurveyReply(2, NilBytes), SurveyReply(0, Garbage)}

Symbols == {"a", "<", xFF, uFFFD}
GoStrings == UNION {[1..n -> Symbols] : n \in 0..MaxStrLen}

(***************************************************************************)
(* The caller's side: one invocation of a Call* method.  The method blocks *)
(* in Node.Survey while the transport gathers the nodes' replies.  A       *)
(* behaviour follows one survey from its broadcast to its end.             *)
(***************************************************************************)
\* SurveyCaller.CallManagedStreams(orgID), survey.go:105-114: encode the request
\* and broadcast it with a one-second deadline
BeginManagedStreams(orgID) ==
    /\ call = NoCall
    /\ ~wire.sent
    /\ LET req == NodeManagedChannelsRequest(orgID)
           jsonData == MarshalManagedChannelsRequest(req)
       IN call' = [fn |-> "CallManagedStreams", arg |-> orgID, pc |-> "survey",
                   op |-> managedStreamsCall, data |-> jsonData,
                   timeout |-> ManagedStreamsTimeoutMs, broadcasts |-> 1,
                   gathered |-> <<>>]
    /\ wire' = SurveyEvent(managedStreamsCall,
                           MarshalManagedChannelsRequest(NodeManagedChannelsRequest(orgID)))
    /\ UNCHANGED <<node, handled, calls, cluster, handlers>>

\* BeginNumChannelSubscribers with the one-second deadline of the enumeration
BeginNumChannelSubscribersOneSecond(channelID) ==
    /\ call = NoCall
    /\ ~wire.sent
    /\ LET req == NumChannelSubscribersRequest(channelID)
           jsonData == MarshalNumSubscribersRequest(req)
       IN call' = [fn |-> "CallNumChannelSubscribers", arg |-> channelID, pc |-> "survey",
                   op |-> numChannelSubscribersCall, data |-> jsonData,
                   timeout |-> ManagedStreamsTimeoutMs, broadcasts |-> 1,
                   gathered |-> <<>>]
    /\ wire' = SurveyEvent(numChannelSubscribersCall,
                           MarshalNumSubscribersRequest(NumChannelSubscribersRequest(channelID)))
    /\ UNCHANGED <<node, handled, calls, cluster, handlers>>

\* SurveyCaller.CallNumChannelSubscribers(channelID), survey.go:143-152
BeginNumChannelSubscribers(channelID) ==
    /\ call = NoCall
    /\ ~wire.sent
    /\ LET req == NumChannelSubscribersRequest(channelID)
           jsonData == MarshalNumSubscribersRequest(req)
       IN call' = [fn |-> "CallNumChannelSubscribers", arg |-> channelID, pc |-> "survey",
                   op |-> numChannelSubscribersCall, data |-> jsonData,
                   timeout |-> NumSubscribersTimeoutMs, broadcasts |-> 1,
                   gathered |-> <<>>]
    /\ wire' = SurveyEvent(numChannelSubscribersCall,
                           MarshalNumSubscribersRequest(NumChannelSubscribersRequest(channelID)))
    /\ UNCHANGED <<node, handled, calls, cluster, handlers>>

Surveying == call # NoCall /\ call.pc = "survey"

\* the replies the transport can gather next, within the bounds
NextReplies ==
    IF ~Surveying THEN {}
    ELSE IF call.fn = "CallManagedStreams"
    THEN IF Len(call.gathered) >= MaxReplies THEN {}
         ELSE {rep \in AllStreamReplies :
                  EntriesIn(rep) + EntriesOf(call.gathered) <= MaxEntries}
    ELSE IF Len(call.gathered) >= MaxNumReplies THEN {} ELSE NumReplies

\* Node.Survey, inside the transport: one more node's reply is gathered
GatherReply(rep) ==
    /\ Surveying
    /\ rep \in NextReplies
    /\ call' = [call EXCEPT !.gathered = Append(@, rep)]
    /\ UNCHANGED <<wire, node, handled, calls, cluster, handlers>>

\* what the method returns once Survey has returned: survey.go:115-140 and 153-171
Returned(survey) ==
    [fn |-> call.fn, arg |-> call.arg, pc |-> "returned", op |-> call.op,
     data |-> call.data, timeout |-> call.timeout, broadcasts |-> call.broadcasts,
     survey |-> survey,
     ret |-> IF call.fn = "CallManagedStreams" THEN ManagedStreamsResult(survey)
             ELSE NumChannelSubscribersResult(survey)]

\* Node.Survey returns the batch it gathered, and the method aggregates it
SurveyReturns ==
    /\ Surveying
    /\ call' = Returned(SurveyReturned(call.gathered))
    /\ UNCHANGED <<wire, node, handled, calls, cluster, handlers>>

\* Node.Survey returns an error (the deadline passed, no node is reachable);
\* the replies gathered so far are dropped by the transport
SurveyFails(err) ==
    /\ Surveying
    /\ call' = Returned(SurveyFailed(err))
    /\ UNCHANGED <<wire, node, handled, calls, cluster, handlers>>

NoRegistry == [channels |-> <<>>, err |-> "", subscribers |-> 0]

Init ==
    /\ call = NoCall
    /\ wire = NoEvent
    /\ node = NoRegistry
    /\ handled = NotHandled
    /\ calls = <<>>
    /\ cluster = <<>>
    /\ handlers = <<>>

Next ==
    \/ \E orgID \in OrgIDs : BeginManagedStreams(orgID)
    \/ \E channelID \in {<<"a">>} : BeginNumChannelSubscribers(channelID)
    \/ \E rep \in NextReplies : GatherReply(rep)
    \/ SurveyReturns
    \/ \E err \in TransportErrors : SurveyFails(err)

Spec == Init /\ [][Next]_vars

(***************************************************************************)
(* The dispatcher's side: a node answers the survey on the wire.           *)
(***************************************************************************)
\* request payloads a survey can carry that no caller of this file encodes
ForeignPayloads ==
    {Garbage, NilBytes, JNull, JArr(<<>>), JObj(<<>>),
     JObj(<< <<"ORGID", JNum(7)>> >>),
     JObj(<< <<"orgId", JStr(<<"a">>)>> >>),
     JObj(<< <<"orgId", JFloat>> >>),
     JObj(<< <<"orgId", JNum(7)>>, <<"orgId", JNull>> >>),
     JObj(<< <<"channel", JNum(1)>> >>),
     JObj(<< <<"channel", JStr(<<"a">>)>>, <<"other", JNum(1)>> >>)}

SurveyOps == {managedStreamsCall, numChannelSubscribersCall, "unknown_op", ""}

\* the org ids a caller asks about: one with channels, one without, zero, negative
AskedOrgIDs == {7, 8, 0, -1}

\* what the answering node's channel registry holds for org 7
RegistryLists ==
    {<<>>,
     <<ManagedChannel(<<"x">>, "m1")>>,
     <<ManagedChannel(<<"y">>, "m1"), ManagedChannel(<<"x">>, "m2")>>,
     <<ManagedChannel(<<"x">>, Unencodable)>>}

Registries ==
    {[channels |-> (7 :> chs), err |-> e, subscribers |-> (<<"a">> :> n)] :
        chs \in RegistryLists, e \in {"", "registry failure"}, n \in {0, 4}}

\* a survey of another node, or of another program, reaches this node
ForeignSurvey(op, data) ==
    /\ call = NoCall
    /\ ~wire.sent
    /\ wire' = SurveyEvent(op, data)
    /\ UNCHANGED <<call, node, handled, calls, cluster, handlers>>

\* HandleSurvey that also drops the failure the channel registry remembers
HandleSurveyResetsRegistry ==
    /\ wire.sent
    /\ ~handled.done
    /\ handled' = handleSurvey(node, wire)
    /\ node' = [node EXCEPT !.err = ""]
    /\ UNCHANGED <<call, wire, calls, cluster, handlers>>

\* the node's OnSurvey handler runs on the event: handleSurvey(e, cb)
HandleSurvey ==
    /\ wire.sent
    /\ ~handled.done
    /\ handled' = handleSurvey(node, wire)
    /\ UNCHANGED <<call, wire, node, calls, cluster, handlers>>

InitDispatch ==
    /\ call = NoCall
    /\ wire = NoEvent
    /\ node \in Registries
    /\ handled = NotHandled
    /\ calls = <<>>
    /\ cluster = <<>>
    /\ handlers = <<>>

NextDispatch ==
    \/ \E orgID \in AskedOrgIDs : BeginManagedStreams(orgID)
    \/ \E channelID \in GoStrings : BeginNumChannelSubscribers(channelID)
    \/ \E op \in SurveyOps, data \in ForeignPayloads : ForeignSurvey(op, data)
    \/ HandleSurvey

SpecDispatch == InitDispatch /\ [][NextDispatch]_vars

(***************************************************************************)
(* handleSurvey step by step (survey.go:50-76): invocations that run       *)
(* concurrently on one node, each with its own e, cb, resp, err, jsonData. *)
(***************************************************************************)
HandlerIDs == {1, 2}

\* the surveys that reach the node
HandlerEvents ==
    {SurveyEvent(op, data) :
        op \in SurveyOps,
        data \in {Garbage, MarshalManagedChannelsRequest(NodeManagedChannelsRequest(7)),
                  MarshalNumSubscribersRequest(NumChannelSubscribersRequest(<<"a">>))}}

NoResult == [err |-> "", resp |-> NoResponse, decodeErr |-> "", req |-> NoResponse,
             lookups |-> <<>>]
NoBytes == [err |-> "", data |-> NilBytes]
IdleHandler == [pc |-> "idle", e |-> NoEvent, r |-> NoResult, m |-> NoBytes, replies |-> <<>>]

\* the transport calls handleSurvey(e, cb) for a survey that arrived
ReceiveSurvey(h, e) ==
    /\ handlers[h].pc = "idle"
    /\ handlers' = [handlers EXCEPT ![h] = [@ EXCEPT !.pc = "switch", !.e = e]]
    /\ UNCHANGED <<call, wire, node, handled, calls, cluster>>

\* survey.go:55-62: resp, err = the handler the switch selects
SwitchOnOp(h) ==
    /\ handlers[h].pc = "switch"
    /\ handlers' = [handlers EXCEPT ![h] =
                       [@ EXCEPT !.pc = "err", !.r = Dispatch(node, handlers[h].e)]]
    /\ UNCHANGED <<call, wire, node, handled, calls, cluster>>

\* survey.go:63-66: err != nil, cb(SurveyReply{Code: 1}) and return
ReplyHandlerError(h) ==
    /\ handlers[h].pc = "err"
    /\ handlers[h].r.err # ""
    /\ handlers' = [handlers EXCEPT ![h] =
                       [@ EXCEPT !.pc = "done",
                                 !.replies = Append(@, SurveyReply(1, NilBytes))]]
    /\ UNCHANGED <<call, wire, node, handled, calls, cluster>>

\* survey.go:67: jsonData, err := json.Marshal(resp)
EncodeResponse(h) ==
    /\ handlers[h].pc = "err"
    /\ handlers[h].r.err = ""
    /\ handlers' = [handlers EXCEPT ![h] =
                       [@ EXCEPT !.pc = "encoded", !.m = MarshalResponse(handlers[h].r.resp)]]
    /\ UNCHANGED <<call, wire, node, handled, calls, cluster>>

\* ReplyEncodeError that returns without calling cb
ReturnOnEncodeError(h) ==
    /\ handlers[h].pc = "encoded"
    /\ handlers[h].m.err # ""
    /\ handlers' = [handlers EXCEPT ![h] = [@ EXCEPT !.pc = "done"]]
    /\ UNCHANGED <<call, wire, node, handled, calls, cluster>>

\* survey.go:68-71: err != nil, cb(SurveyReply{Code: 1}) and return
ReplyEncodeError(h) ==
    /\ handlers[h].pc = "encoded"
    /\ handlers[h].m.err # ""
    /\ handlers' = [handlers EXCEPT ![h] =
                       [@ EXCEPT !.pc = "done",
                                 !.replies = Append(@, SurveyReply(1, NilBytes))]]
    /\ UNCHANGED <<call, wire, node, handled, calls, cluster>>

\* survey.go:72-75: cb(SurveyReply{Code: 0, Data: jsonData})
ReplySuccess(h) ==
    /\ handlers[h].pc = "encoded"
    /\ handlers[h].m.err = ""
    /\ handlers' = [handlers EXCEPT ![h] =
                       [@ EXCEPT !.pc = "done",
                                 !.replies = Append(@, SurveyReply(0, handlers[h].m.data))]]
    /\ UNCHANGED <<call, wire, node, handled, calls, cluster>>

InitHandlers ==
    /\ call = NoCall
    /\ wire = NoEvent
    /\ node \in Registries
    /\ handled = NotHandled
    /\ calls = <<>>
    /\ cluster = <<>>
    /\ handlers = [h \in HandlerIDs |-> IdleHandler]

NextHandlers ==
    \E h \in HandlerIDs :
        \/ \E e \in HandlerEvents : ReceiveSurvey(h, e)
        \/ SwitchOnOp(h)
        \/ ReplyHandlerError(h)
        \/ EncodeResponse(h)
        \/ ReplyEncodeError(h)
        \/ ReplySuccess(h)

SpecHandlers == InitHandlers /\ [][NextHandlers]_vars

(***************************************************************************)
(* The Call* methods reply by reply (survey.go:105-172): invocations that  *)
(* run concurrently, each with its own resp, channels, duplicatesCheck and *)
(* num.                                                                    *)
(***************************************************************************)
CallerIDs == {1, 2}

\* the replies the batches of concurrent calls are made of
ConcurrentStreamReplies ==
    {SurveyReply(0, MarshalManagedChannelsResponse(chs, FALSE).data) :
        chs \in {<<ManagedChannel(<<"x">>, "m1")>>,
                 <<ManagedChannel(<<"y">>, "m1"), ManagedChannel(<<"x">>, "m2")>>,
                 <<NilPtr>>}}
    \cup {SurveyReply(1, NilBytes)}
ConcurrentNumReplies ==
    {SurveyReply(0, MarshalNumSubscribersResponse(c).data) : c \in {4, 7}}
    \cup {SurveyReply(0, Garbage)}

\* the batches Survey can return to the method fn
ConcurrentBatches(fn) ==
    UNION {[1..n -> IF fn = "CallManagedStreams" THEN ConcurrentStreamReplies
                    ELSE ConcurrentNumReplies] : n \in 0..MaxConcurrentReplies}

IdleCall ==
    [fn |-> "", pc |-> "idle", survey |-> SurveyReturned(<<>>), i |-> 0,
     channels |-> <<>>, duplicatesCheck |-> {}, num |-> 0,
     ret |-> [outcome |-> ""]]

\* a duplicatesCheck that all invocations share
SharedDuplicatesCheck(k) == UNION {calls[j].duplicatesCheck : j \in CallerIDs}

\* the duplicatesCheck invocation k reads: its own local map (survey.go:120)
DuplicatesCheckOf(k) == calls[k].duplicatesCheck

\* survey.go:105-114 and 143-152: the method is invoked and blocks in Survey
Invoke(k, fn) ==
    /\ calls[k].pc = "idle"
    /\ calls' = [calls EXCEPT ![k] = [@ EXCEPT !.fn = fn, !.pc = "survey"]]
    /\ UNCHANGED <<call, wire, node, handled, cluster, handlers>>

\* Survey returns a batch; survey.go:119-120 and 157 create the locals
SurveyReturnsTo(k, resp) ==
    /\ calls[k].pc = "survey"
    /\ resp \in ConcurrentBatches(calls[k].fn)
    /\ calls' = [calls EXCEPT ![k] =
                    [@ EXCEPT !.pc = "loop", !.survey = SurveyReturned(resp), !.i = 1,
                              !.channels = <<>>, !.duplicatesCheck = {}, !.num = 0]]
    /\ UNCHANGED <<call, wire, node, handled, cluster, handlers>>

\* Survey returns an error; survey.go:115-117 and 153-155 return it
SurveyFailsTo(k, err) ==
    /\ calls[k].pc = "survey"
    /\ calls' = [calls EXCEPT ![k] =
                    [@ EXCEPT !.pc = "returned", !.survey = SurveyFailed(err),
                              !.ret = IF calls[k].fn = "CallManagedStreams"
                                      THEN ManagedStreamsResult(SurveyFailed(err))
                                      ELSE NumChannelSubscribersResult(SurveyFailed(err))]]
    /\ UNCHANGED <<call, wire, node, handled, cluster, handlers>>

\* one turn of the loop of CallManagedStreams, survey.go:122-138
MergeOneReply(k) ==
    /\ calls[k].pc = "loop"
    /\ calls[k].fn = "CallManagedStreams"
    /\ calls[k].i <= Len(calls[k].survey.resp)
    /\ LET i == calls[k].i
           result == calls[k].survey.resp[i]
           res == UnmarshalManagedChannelsResponse(result.Data)
           a == AppendNew(res.Channels, 1, calls[k].channels, DuplicatesCheckOf(k))
           fail(outcome, err) ==
               [calls[k] EXCEPT !.pc = "returned",
                                !.ret = [outcome |-> outcome, channels |-> <<>>,
                                         isNil |-> TRUE, err |-> err, examined |-> i]]
       IN calls' = [calls EXCEPT ![k] =
                       IF result.Code # 0 THEN fail("error", UnexpectedCode(result.Code))
                       ELSE IF res.err # "" THEN fail("error", res.err)
                       ELSE IF a.panic THEN fail("panic", "nil pointer dereference")
                       ELSE [@ EXCEPT !.i = i + 1, !.channels = a.channels,
                                      !.duplicatesCheck = a.dup]]
    /\ UNCHANGED <<call, wire, node, handled, cluster, handlers>>

\* one turn of the loop of CallNumChannelSubscribers, survey.go:159-169
AddOneReply(k) ==
    /\ calls[k].pc = "loop"
    /\ calls[k].fn = "CallNumChannelSubscribers"
    /\ calls[k].i <= Len(calls[k].survey.resp)
    /\ LET i == calls[k].i
           result == calls[k].survey.resp[i]
           res == UnmarshalNumSubscribersResponse(result.Data)
           fail(err) ==
               [calls[k] EXCEPT !.pc = "returned",
                                !.ret = [outcome |-> "error", num |-> 0, err |-> err,
                                         examined |-> i]]
       IN calls' = [calls EXCEPT ![k] =
                       IF result.Code # 0 THEN fail(UnexpectedCode(result.Code))
                       ELSE IF res.err # "" THEN fail(res.err)
                       ELSE [@ EXCEPT !.i = i + 1, !.num = AddInt(@, res.Num)]]
    /\ UNCHANGED <<call, wire, node, handled, cluster, handlers>>

\* survey.go:140 and 171: the loop is over, the aggregate is returned
ReturnAggregate(k) ==
    /\ calls[k].pc = "loop"
    /\ calls[k].i > Len(calls[k].survey.resp)
    /\ calls' = [calls EXCEPT ![k] =
                    [@ EXCEPT !.pc = "returned",
                              !.ret = IF calls[k].fn = "CallManagedStreams"
                                      THEN [outcome |-> "ok", channels |-> calls[k].channels,
                                            isNil |-> FALSE, err |-> "",
                                            examined |-> Len(calls[k].survey.resp)]
                                      ELSE [outcome |-> "ok", num |-> calls[k].num,
                                            err |-> "",
                                            examined |-> Len(calls[k].survey.resp)]]]
    /\ UNCHANGED <<call, wire, node, handled, cluster, handlers>>

InitConcurrent ==
    /\ call = NoCall
    /\ wire = NoEvent
    /\ node = NoRegistry
    /\ handled = NotHandled
    /\ calls = [k \in CallerIDs |-> IdleCall]
    /\ cluster = <<>>
    /\ handlers = <<>>

NextConcurrent ==
    \E k \in CallerIDs :
        \/ \E fn \in {"CallManagedStreams", "CallNumChannelSubscribers"} : Invoke(k, fn)
        \/ \E resp \in ConcurrentBatches(calls[k].fn) : SurveyReturnsTo(k, resp)
        \/ SurveyFailsTo(k, "context deadline exceeded")
        \/ MergeOneReply(k)
        \/ AddOneReply(k)
        \/ ReturnAggregate(k)

SpecConcurrent == InitConcurrent /\ [][NextConcurrent]_vars

(***************************************************************************)
(* A cluster: the caller's broadcast reaches every node, each node's       *)
(* dispatcher answers from its own registries, and the transport gathers   *)
(* the answers until all have come or the deadline passes.                 *)
(***************************************************************************)
NodeIDs == {1, 2, 3}

\* what a node's registries hold
ClusterRegistries ==
    {[channels |-> (7 :> chs), err |-> e, subscribers |-> (<<"a">> :> 4)] :
        chs \in {<<ManagedChannel(<<"x">>, "m1")>>,
                 <<ManagedChannel(<<"y">>, "m1"), ManagedChannel(<<"x">>, "m2")>>},
        e \in {"", "registry failure"}}

\* a node the broadcast has not reached yet
FreshNode(reg) == [reg |-> reg, handled |-> NotHandled, replied |-> "no"]

\* the survey reaches node n, with its payload intact or damaged, and the
\* node's handleSurvey answers it
NodeHandles(n, data) ==
    /\ wire.sent
    /\ ~cluster[n].handled.done
    /\ cluster' = [cluster EXCEPT ![n].handled =
                      handleSurvey(cluster[n].reg, SurveyEvent(wire.Op, data))]
    /\ UNCHANGED <<call, wire, node, handled, calls, handlers>>

\* node n's reply reaches the transport while Survey is still waiting
GatherFrom(n) ==
    /\ Surveying
    /\ cluster[n].handled.done
    /\ cluster[n].replied = "no"
    /\ call' = [call EXCEPT !.gathered = Append(@, cluster[n].handled.replies[1])]
    /\ cluster' = [cluster EXCEPT ![n].replied = "gathered"]
    /\ UNCHANGED <<wire, node, handled, calls, handlers>>

\* node n's reply reaches the transport after Survey has returned
LateReplyFrom(n) ==
    /\ call # NoCall /\ call.pc = "returned"
    /\ cluster[n].handled.done
    /\ cluster[n].replied = "no"
    /\ cluster' = [cluster EXCEPT ![n].replied = "late"]
    /\ UNCHANGED <<call, wire, node, handled, calls, handlers>>

\* every node has replied: Survey returns the full batch
AllNodesReplied ==
    /\ \A n \in NodeIDs : cluster[n].replied = "gathered"
    /\ SurveyReturns

\* the deadline of the call's context passes first: Survey returns its error
DeadlinePasses ==
    /\ \E n \in NodeIDs : cluster[n].replied # "gathered"
    /\ SurveyFails("context deadline exceeded")

InitCluster ==
    /\ call = NoCall
    /\ wire = NoEvent
    /\ node = NoRegistry
    /\ handled = NotHandled
    /\ calls = <<>>
    /\ cluster \in [NodeIDs -> {FreshNode(reg) : reg \in ClusterRegistries}]
    /\ handlers = <<>>

NextCluster ==
    \/ BeginManagedStreams(7)
    \/ BeginNumChannelSubscribers(<<"a">>)
    \/ \E n \in NodeIDs : \E data \in {wire.Data, Garbage} : NodeHandles(n, data)
    \/ \E n \in NodeIDs : GatherFrom(n)
    \/ \E n \in NodeIDs : LateReplyFrom(n)
    \/ AllNodesReplied
    \/ DeadlinePasses

SpecCluster == InitCluster /\ [][NextCluster]_vars

(***************************************************************************)
(* Vocabulary of the properties.                                           *)
(***************************************************************************)
\* the Call* method has returned to its invoker, or has panicked
Done == call # NoCall /\ call.pc = "returned"
DoneStreams == Done /\ call.fn = "CallManagedStreams"
DoneNum == Done /\ call.fn = "CallNumChannelSubscribers"

\* Survey returned a batch and no error
GotBatch == Done /\ call.survey.err = ""
Batch == call.survey.resp

\* the method handed its invoker an error and the zero value of its result type
ReturnedErrorAndZero ==
    /\ call.ret.outcome = "error"
    /\ call.ret.err # ""
    /\ IF call.fn = "CallManagedStreams"
       THEN call.ret.isNil /\ call.ret.channels = <<>>
       ELSE call.ret.num = 0

\* the decode error of reply i of the batch ("" when it decodes)
DecodeErr(i) ==
    IF call.fn = "CallManagedStreams"
    THEN UnmarshalManagedChannelsResponse(Batch[i].Data).err
    ELSE UnmarshalNumSubscribersResponse(Batch[i].Data).err

Succeeded(i) == Batch[i].Code = 0 /\ DecodeErr(i) = ""
AllSucceeded == \A i \in 1..Len(Batch) : Succeeded(i)

\* C1: a batch holding a reply with a nonzero status code makes both methods
\* return an error and the zero value, whatever the reply's position.
C1_NonzeroStatusAborts ==
    (GotBatch /\ \E i \in 1..Len(Batch) : Batch[i].Code # 0) => ReturnedErrorAndZero

\* C2 as written: a batch of successful replies makes CallNumChannelSubscribers
\* return exactly the sum of the counts, and no error.
Count(i) == UnmarshalNumSubscribersResponse(Batch[i].Data).Num

\* the sum of the first n counts stays within Go's int at every step
RECURSIVE SumFits(_)
SumFits(n) ==
    IF n = 0 THEN TRUE
    ELSE /\ SumFits(n - 1)
         /\ LET RECURSIVE Pre(_)
                Pre(k) == IF k = 0 THEN 0 ELSE Pre(k - 1) + Count(k)
            IN IF Count(n) >= 0 THEN Pre(n - 1) <= MaxInt - Count(n)
               ELSE Pre(n - 1) >= MinInt - Count(n)

RECURSIVE ExactSum(_)
ExactSum(n) == IF n = 0 THEN 0 ELSE ExactSum(n - 1) + Count(n)

C2_SumIsExact ==
    (DoneNum /\ GotBatch /\ AllSucceeded) =>
        /\ call.ret.outcome = "ok" /\ call.ret.err = ""
        /\ SumFits(Len(Batch))
        /\ call.ret.num = ExactSum(Len(Batch))

\* C2 amended: the sum is exact whenever it stays within Go's int.
C2_SumIsExactWithinInt ==
    (DoneNum /\ GotBatch /\ AllSucceeded) =>
        /\ call.ret.outcome = "ok" /\ call.ret.err = ""
        /\ SumFits(Len(Batch)) => call.ret.num = ExactSum(Len(Batch))

\* five nodes, two of them without subscribers, 4 + 7 = 11
C2_Witness ==
    /\ DoneNum /\ GotBatch /\ AllSucceeded
    /\ Len(Batch) = 5
    /\ \E i, j, k \in 1..5 : Count(i) = 4 /\ Count(j) = 7 /\ Count(k) = 0
    /\ call.ret.num = 11

\* C3 as written: zero replies make both methods return an error.
C3_NoRepliesIsError == (Done /\ Batch = <<>>) => call.ret.outcome = "error"

\* the success result of a method that merged nothing: an empty list that is
\* not nil, or the count 0
ReturnedEmptySuccess ==
    /\ call.ret.outcome = "ok"
    /\ call.ret.err = ""
    /\ IF call.fn = "CallManagedStreams"
       THEN call.ret.channels = <<>> /\ ~call.ret.isNil
       ELSE call.ret.num = 0

\* C3 amended: zero replies are an error only when Survey itself returned one;
\* an empty batch without error gives the empty success result.
C3_NoRepliesFollowsSurvey ==
    (Done /\ Batch = <<>>) =>
        IF call.survey.err = "" THEN ReturnedEmptySuccess
        ELSE ReturnedErrorAndZero /\ call.ret.err = call.survey.err

C3_Witness == DoneStreams /\ GotBatch /\ Batch = <<>> /\ ReturnedEmptySuccess

\* the channels reply i lists, decoded
Listed(i) == UnmarshalManagedChannelsResponse(Batch[i].Data).Channels
Ids(chs) == [i \in 1..Len(chs) |-> chs[i].Channel]

\* C4: the list CallManagedStreams returns holds no channel identifier twice.
C4_NoDuplicateIds ==
    (DoneStreams /\ call.ret.outcome = "ok") =>
        \A i, j \in 1..Len(call.ret.channels) :
            call.ret.channels[i].Channel = call.ret.channels[j].Channel => i = j

\* nodes A = {x}, B = {x, y}, C = {} give {x, y}
C4_Witness ==
    /\ DoneStreams /\ GotBatch /\ Len(Batch) = 3 /\ AllSucceeded
    /\ Listed(1) = <<ManagedChannel(<<"x">>, "m1")>>
    /\ Listed(2) = <<ManagedChannel(<<"x">>, "m1"), ManagedChannel(<<"y">>, "m1")>>
    /\ Listed(3) = <<>>
    /\ call.ret.outcome = "ok"
    /\ Ids(call.ret.channels) = << <<"x">>, <<"y">> >>

\* the lists of the first n replies, one after the other
RECURSIVE Reported(_)
Reported(n) == IF n = 0 THEN <<>> ELSE Reported(n - 1) \o Listed(n)

\* chs without every entry whose identifier an earlier entry carries
FirstOccurrences(chs) ==
    LET keep == {i \in 1..Len(chs) : \A j \in 1..(i - 1) : chs[j].Channel # chs[i].Channel}
    IN [k \in 1..Cardinality(keep) |->
           chs[CHOOSE i \in keep : Cardinality({j \in keep : j < i}) = k - 1]]

\* C5: the list returned is the nodes' lists in batch order, one after the
\* other, with every later occurrence of an identifier removed.
C5_FirstOccurrencesInOrder ==
    (DoneStreams /\ call.ret.outcome = "ok") =>
        /\ GotBatch /\ AllSucceeded
        /\ ~call.ret.isNil
        /\ call.ret.channels = FirstOccurrences(Reported(Len(Batch)))

\* y before x in the result, and x with the metadata of its first copy
C5_Witness ==
    /\ DoneStreams /\ call.ret.outcome = "ok"
    /\ call.ret.channels = <<ManagedChannel(<<"y">>, "m1"), ManagedChannel(<<"x">>, "m2")>>
    /\ Len(Batch) = 2
    /\ Listed(2) = <<ManagedChannel(<<"x">>, "m1")>>

\* C8: an error of Survey itself is returned unchanged, with the zero value,
\* and no reply is examined.
C8_SurveyErrorUnchanged ==
    (Done /\ call.survey.err # "") =>
        /\ ReturnedErrorAndZero
        /\ call.ret.err = call.survey.err
        /\ call.ret.examined = 0

C8_Witness ==
    /\ DoneNum /\ call.survey.err = "context deadline exceeded"
    /\ call.ret.err = "context deadline exceeded" /\ call.ret.num = 0

\* the first reply of the batch that is not a success
FirstBad == CHOOSE i \in 1..Len(Batch) : ~Succeeded(i) /\ \A j \in 1..(i - 1) : Succeeded(j)

\* C9: a status-0 reply that does not decode makes both methods return an
\* error and the zero value; the error is the decode error when that reply is
\* the first bad one of the batch.
C9_DecodeFailureAborts ==
    (GotBatch /\ \E i \in 1..Len(Batch) : Batch[i].Code = 0 /\ DecodeErr(i) # "") =>
        /\ ReturnedErrorAndZero
        /\ Batch[FirstBad].Code = 0 => call.ret.err = DecodeErr(FirstBad)

\* C1 and C9 hold of every call that does not panic.
C1_C9_AbortUnlessPanic ==
    (GotBatch /\ ~AllSucceeded /\ call.ret.outcome # "panic") =>
        /\ ReturnedErrorAndZero
        /\ call.ret.err = IF Batch[FirstBad].Code = 0 THEN DecodeErr(FirstBad)
                          ELSE UnexpectedCode(Batch[FirstBad].Code)

(***************************************************************************)
(* Properties of the dispatcher, under SpecDispatch.                       *)
(***************************************************************************)
KnownOp(op) == op \in {managedStreamsCall, numChannelSubscribersCall}
NoPayloadCode1 == <<SurveyReply(1, NilBytes)>>

\* C6: an operation name that is neither of the two known ones is answered
\* with status code 1 and no payload, and no registry is consulted.
C6_UnknownOpRepliesCode1 ==
    (handled.done /\ ~KnownOp(handled.event.Op)) =>
        /\ handled.replies = NoPayloadCode1
        /\ handled.lookups = <<>>

\* an unknown operation that carries a well-formed request
C6_Witness ==
    /\ handled.done /\ handled.event.Op = "unknown_op"
    /\ handled.event.Data = JObj(<< <<"ORGID", JNum(7)>> >>)
    /\ node.err = ""
    /\ handled.replies = NoPayloadCode1

\* the steps of handling event e on this node, each taken alone
RequestDecodes(e) ==
    IF e.Op = managedStreamsCall THEN UnmarshalManagedChannelsRequest(e.Data).err = ""
    ELSE UnmarshalNumSubscribersRequest(e.Data).err = ""
LookupSucceeds(e) == e.Op = managedStreamsCall => node.err = ""
ResponseEncodes(e) ==
    e.Op = managedStreamsCall =>
        LET got == getManagedChannels(node, UnmarshalManagedChannelsRequest(e.Data).req.OrgID)
        IN \A i \in 1..Len(got.channels) : got.channels[i].Meta # Unencodable

\* C7: the one reply has status code 0 and a payload exactly when the operation
\* is known, the request decodes, the lookup succeeds and the response encodes;
\* otherwise it has status code 1 and no payload.
C7_Code0IffAllStepsSucceed ==
    handled.done =>
        LET e == handled.event
            ok == KnownOp(e.Op) /\ RequestDecodes(e) /\ LookupSucceeds(e) /\ ResponseEncodes(e)
        IN /\ Len(handled.replies) = 1
           /\ IF ok THEN handled.replies[1].Code = 0 /\ IsJSON(handled.replies[1].Data)
              ELSE handled.replies = NoPayloadCode1

C7_Witness ==
    /\ handled.done /\ handled.event.Op = managedStreamsCall
    /\ handled.lookups = <<[registry |-> "channels", orgID |-> 7]>>
    /\ Len(node.channels[7]) = 2
    /\ handled.replies[1].Code = 0
    /\ handled.replies[1].Data.v[1][2].t = "arr"

\* the event handled is the one this caller's broadcast encoded
OwnSurveyHandled == handled.done /\ call # NoCall

\* C10 as written: the request a caller encodes is decoded by the handler into
\* the same fields, and the registry is asked about exactly that value.
C10_RequestRoundTrips ==
    OwnSurveyHandled =>
        /\ handled.decodeErr = ""
        /\ Len(handled.lookups) = 1
        /\ IF call.fn = "CallManagedStreams"
           THEN handled.req.OrgID = call.arg /\ handled.lookups[1].orgID = call.arg
           ELSE handled.req.Channel = call.arg /\ handled.lookups[1].channel = call.arg

IsValidUTF8(str) == \A i \in 1..Len(str) : str[i] # xFF

\* C10 amended: every org id round-trips, and every channel that is valid UTF-8;
\* in any other channel each invalid byte arrives as U+FFFD.
C10_RoundTripsValidUTF8 ==
    OwnSurveyHandled =>
        /\ handled.decodeErr = ""
        /\ Len(handled.lookups) = 1
        /\ IF call.fn = "CallManagedStreams"
           THEN handled.req.OrgID = call.arg /\ handled.lookups[1].orgID = call.arg
           ELSE /\ handled.lookups[1].channel = handled.req.Channel
                /\ Len(handled.req.Channel) = Len(call.arg)
                /\ \A i \in 1..Len(call.arg) :
                       handled.req.Channel[i] = IF call.arg[i] = xFF THEN uFFFD ELSE call.arg[i]
                /\ IsValidUTF8(call.arg) <=> handled.req.Channel = call.arg

C10_Witness ==
    /\ OwnSurveyHandled /\ call.fn = "CallNumChannelSubscribers"
    /\ call.arg = <<"a", "<">>
    /\ handled.lookups = <<[registry |-> "hub", channel |-> <<"a", "<">>]>>

(***************************************************************************)
(* Properties of one call from its broadcast to its end, under Spec.       *)
(***************************************************************************)
\* C11: every invocation broadcasts exactly once and, once Survey has
\* returned, returns to its invoker: with a result or with an error.
C11_SingleShotAlwaysReturns ==
    Done => /\ call.broadcasts = 1
            /\ call.ret.outcome \in {"ok", "error"}

\* C11 but for the return: the number of broadcasts of an invocation stays one,
\* and what an invocation has handed to its invoker never changes.
C11_OneBroadcastOneResult ==
    [][/\ call # NoCall => (call' # NoCall /\ call'.broadcasts = 1 /\ call'.fn = call.fn)
       /\ Done => call' = call]_vars

\* C15: CallManagedStreams broadcasts "managed_streams" with a deadline of one
\* second, CallNumChannelSubscribers "num_channel_subscribers" with 500 ms,
\* which is the shorter of the two.
C15_OperationsAndDeadlines ==
    /\ NumSubscribersTimeoutMs < ManagedStreamsTimeoutMs
    /\ call # NoCall =>
          /\ wire.sent /\ wire.Op = call.op /\ wire.Data = call.data
          /\ IF call.fn = "CallManagedStreams"
             THEN call.op = "managed_streams" /\ call.timeout = 1000
             ELSE call.op = "num_channel_subscribers" /\ call.timeout = 500

C15_Witness ==
    /\ Surveying /\ call.fn = "CallNumChannelSubscribers"
    /\ wire.Op = "num_channel_subscribers" /\ call.timeout = 500

\* the replies of the batch that are not a success
BadReplies == {i \in 1..Len(Batch) : ~Succeeded(i)}

\* C16: of a batch with several bad replies the methods return the error of
\* the first one (the status error when its code is nonzero, else its decode
\* error), and they examine no reply after it.
C16_FirstBadReplyError ==
    (GotBatch /\ Cardinality(BadReplies) >= 2) =>
        /\ call.ret.outcome = "error"
        /\ call.ret.err = IF Batch[FirstBad].Code # 0
                          THEN UnexpectedCode(Batch[FirstBad].Code)
                          ELSE DecodeErr(FirstBad)
        /\ call.ret.examined = FirstBad

\* C16 holds of every call that does not panic; a call that panics does so
\* before the first bad reply.
C16_FirstBadUnlessPanic ==
    (GotBatch /\ Cardinality(BadReplies) >= 2) =>
        IF call.ret.outcome = "panic" THEN call.ret.examined < FirstBad
        ELSE /\ call.ret.outcome = "error"
             /\ call.ret.err = IF Batch[FirstBad].Code # 0
                               THEN UnexpectedCode(Batch[FirstBad].Code)
                               ELSE DecodeErr(FirstBad)
             /\ call.ret.examined = FirstBad

\* C20: CallManagedStreams ends by returning a list or an error, whatever the
\* batch; it never ends in a panic.
C20_NeverCrashes == DoneStreams => call.ret.outcome \in {"ok", "error"}

\* C20's case: a panic happens exactly when a null entry is reached before any
\* bad reply.
C20_PanicIffNullEntryReached ==
    (DoneStreams /\ GotBatch) =>
        (call.ret.outcome = "panic" <=>
            \E i \in 1..Len(Batch) :
                /\ \A j \in 1..i : Succeeded(j)
                /\ \E k \in 1..Len(Listed(i)) : Listed(i)[k] = NilPtr)

(***************************************************************************)
(* More properties of the dispatcher, under SpecDispatch.                  *)
(***************************************************************************)
\* C14: handling a survey, whatever its operation and payload, changes neither
\* the node's channel registry nor its hub, nor anything else but the reply.
C14_HandlingChangesNoState ==
    [][handled' # handled => (node' = node /\ call' = call /\ wire' = wire)]_vars

\* a malformed request handled on a node whose registry fails
C14_Witness ==
    /\ handled.done /\ handled.event.Data = Garbage
    /\ node.err = "registry failure" /\ Len(node.channels[7]) = 2

\* the reply of the handled survey, and what it carries
TheReply == handled.replies[1]
Replied0 == handled.done /\ Len(handled.replies) = 1 /\ TheReply.Code = 0

\* C17: a successful managed_streams reply carries the list getManagedChannels
\* returned for the request's orgId, a successful num_channel_subscribers reply
\* the hub's count for the request's channel; each handler asks its own
\* registry, once; the count handler fails on nothing but the request's decoding.
C17_RoutesToMatchingRegistry ==
    handled.done =>
        /\ (Replied0 /\ handled.event.Op = managedStreamsCall) =>
              /\ Len(handled.lookups) = 1 /\ handled.lookups[1].registry = "channels"
              /\ handled.lookups[1].orgID = handled.req.OrgID
              /\ UnmarshalManagedChannelsResponse(TheReply.Data).err = ""
              /\ UnmarshalManagedChannelsResponse(TheReply.Data).Channels
                    = getManagedChannels(node, handled.req.OrgID).channels
        /\ (Replied0 /\ handled.event.Op = numChannelSubscribersCall) =>
              /\ Len(handled.lookups) = 1 /\ handled.lookups[1].registry = "hub"
              /\ handled.lookups[1].channel = handled.req.Channel
              /\ UnmarshalNumSubscribersResponse(TheReply.Data).err = ""
              /\ UnmarshalNumSubscribersResponse(TheReply.Data).Num
                    = NumSubscribers(node, handled.req.Channel)
        /\ (~Replied0 /\ handled.event.Op = numChannelSubscribersCall) =>
              /\ handled.decodeErr # ""
              /\ handled.lookups = <<>>
        /\ Replied0 => KnownOp(handled.event.Op)

\* a node with four subscribers of channel "a" and a two-channel registry
\* answers the count survey with 4
C17_Witness ==
    /\ Replied0 /\ handled.event.Op = numChannelSubscribersCall
    /\ handled.req.Channel = <<"a">>
    /\ node.subscribers[<<"a">>] = 4 /\ Len(node.channels[7]) = 2
    /\ UnmarshalNumSubscribersResponse(TheReply.Data).Num = 4

\* the enumeration survey answered with the registry's two channels
C17_WitnessStreams ==
    /\ Replied0 /\ handled.event.Op = managedStreamsCall
    /\ handled.req.OrgID = 7
    /\ UnmarshalManagedChannelsResponse(TheReply.Data).Channels
          = <<ManagedChannel(<<"y">>, "m1"), ManagedChannel(<<"x">>, "m2")>>

(***************************************************************************)
(* Properties of concurrent handlers, under SpecHandlers.                  *)
(***************************************************************************)
\* C19: an invocation of handleSurvey that has returned has called its reply
\* callback exactly once, on every path, with the reply that belongs to its own
\* event; before it returns it has not called it; it never calls it twice.
C19_ExactlyOneReply ==
    \A h \in HandlerIDs :
        /\ Len(handlers[h].replies) <= 1
        /\ handlers[h].pc # "done" => handlers[h].replies = <<>>
        /\ handlers[h].pc = "done" =>
              /\ Len(handlers[h].replies) = 1
              /\ handlers[h].replies = handleSurvey(node, handlers[h].e).replies

\* two surveys handled at once: one fails to encode its response, the other
\* is answered with the count
C19_Witness ==
    /\ handlers[1].pc = "done" /\ handlers[1].m.err # ""
    /\ handlers[1].replies = <<SurveyReply(1, NilBytes)>>
    /\ handlers[2].pc = "done" /\ handlers[2].e.Op = numChannelSubscribersCall
    /\ handlers[2].replies[1].Code = 0

\* the other paths: an unknown operation, and a handler error
C19_WitnessErrorPaths ==
    /\ handlers[1].pc = "done" /\ handlers[1].e.Op = "unknown_op"
    /\ handlers[2].pc = "done" /\ handlers[2].r.decodeErr # ""
    /\ Len(handlers[1].replies) = 1 /\ Len(handlers[2].replies) = 1

(***************************************************************************)
(* Properties of concurrent calls, under SpecConcurrent.                   *)
(***************************************************************************)
\* what invocation k returns when it runs alone on its batch
AloneOnItsBatch(k) ==
    IF calls[k].fn = "CallManagedStreams" THEN ManagedStreamsResult(calls[k].survey)
    ELSE NumChannelSubscribersResult(calls[k].survey)

\* C13: however the turns of concurrent invocations interleave, each one ends
\* with what it would have given alone on its own batch.
C13_ConcurrentCallsIndependent ==
    \A k \in CallerIDs : calls[k].pc = "returned" => calls[k].ret = AloneOnItsBatch(k)

\* invocation 1 has recorded x and is still merging when invocation 2 returns
\* y and its own copy of x
C13_Witness ==
    /\ calls[1].pc = "loop" /\ calls[1].duplicatesCheck = {<<"x">>}
    /\ calls[1].i <= Len(calls[1].survey.resp)
    /\ calls[2].pc = "returned" /\ calls[2].fn = "CallManagedStreams"
    /\ calls[2].ret.outcome = "ok"
    /\ calls[2].ret.channels
          = <<ManagedChannel(<<"y">>, "m1"), ManagedChannel(<<"x">>, "m2")>>

\* a sum and an enumeration side by side
C13_WitnessMixed ==
    /\ calls[1].pc = "returned" /\ calls[1].fn = "CallNumChannelSubscribers"
    /\ calls[1].ret.outcome = "ok" /\ calls[1].ret.num = 11
    /\ calls[2].pc = "loop" /\ calls[2].fn = "CallManagedStreams" /\ calls[2].i = 2

(***************************************************************************)
(* Properties of a call across the cluster, under SpecCluster.             *)
(***************************************************************************)
InTime(n) == cluster[n].replied = "gathered"

\* C12: a call whose deadline passed before every node had replied has
\* returned the deadline error and the zero value, and keeps that result when
\* the missing replies arrive; a call that returned an aggregate had every
\* node's reply in its batch.
C12_DeadlineFailsTheCall ==
    Done =>
        /\ (\E n \in NodeIDs : ~InTime(n)) =>
              /\ call.survey.err = "context deadline exceeded"
              /\ ReturnedErrorAndZero
              /\ call.ret.err = call.survey.err
              /\ call.ret.examined = 0
        /\ call.ret.outcome = "ok" =>
              /\ \A n \in NodeIDs : InTime(n)
              /\ Len(Batch) = Cardinality(NodeIDs)

\* two nodes replied in time with channels, the third after the deadline
C12_Witness ==
    /\ DoneStreams /\ call.survey.err = "context deadline exceeded"
    /\ InTime(1) /\ InTime(2) /\ cluster[3].replied = "late"
    /\ \A n \in NodeIDs : cluster[n].handled.replies[1].Code = 0
    /\ call.ret.isNil /\ call.ret.channels = <<>>

\* node n could not answer: its registry failed, or the request did not decode
NodeFailed(n) ==
    /\ cluster[n].handled.done
    /\ cluster[n].handled.err # ""
    /\ \/ cluster[n].reg.err # "" /\ cluster[n].handled.err = cluster[n].reg.err
       \/ cluster[n].handled.decodeErr # ""

\* C18: when every node has answered and one of them could not (its registry
\* failed, or it could not decode the request), that node has replied status
\* code 1 without payload, and CallManagedStreams returns the error
\* "unexpected survey code: 1" and no channel.
C18_OneBadNodeFailsTheCall ==
    \A n \in NodeIDs :
        /\ cluster[n].handled.done =>
              /\ Len(cluster[n].handled.replies) = 1
              /\ cluster[n].handled.err # "" => cluster[n].handled.replies = NoPayloadCode1
        /\ (DoneStreams /\ GotBatch /\ NodeFailed(n)) =>
              /\ call.ret.outcome = "error"
              /\ call.ret.err = "unexpected survey code: 1"
              /\ call.ret.isNil /\ call.ret.channels = <<>>

\* nodes 1 and 2 list their channels, node 3's registry fails and its reply
\* comes last
C18_Witness ==
    /\ DoneStreams /\ GotBatch /\ Len(Batch) = 3
    /\ Batch[1].Code = 0 /\ Batch[2].Code = 0 /\ Batch[3] = SurveyReply(1, NilBytes)
    /\ cluster[3].reg.err = "registry failure" /\ NodeFailed(3)
    /\ ~NodeFailed(1) /\ ~NodeFailed(2)
    /\ call.ret.err = "unexpected survey code: 1"

\* a node that could not decode the request
C18_WitnessDecode ==
    /\ DoneStreams /\ GotBatch
    /\ cluster[1].handled.decodeErr # "" /\ cluster[1].reg.err = ""
    /\ ~NodeFailed(2) /\ ~NodeFailed(3)
    /\ call.ret.err = "unexpected survey code: 1"
====
